---- MODULE Spec2Model ----
(***************************************************************************)
(* Model of backup_az_final.py: the backup utility that walks a source     *)
(* tree and copies every file into a destination tree, nested or flat,     *)
(* renaming a file whose destination name is taken by appending a UTC      *)
(* timestamp to its stem.                                                  *)
(*                                                                         *)
(* Paths are strings and the filesystem is a function from the existing    *)
(* paths to their entries, shared by every invocation of the program.      *)
(* The log of an invocation holds the messages that matter below (the      *)
(* per-file reports, the dry run's directory reports and the fatal errors) *)
(* and the copies performed; "Destination ready" and "Backup completed."   *)
(* are not recorded.                                                       *)
(***************************************************************************)
EXTENDS Integers, Sequences, FiniteSets

VARIABLES
    fs,          \* the filesystem: existing path |-> [kind, data]
    clock,       \* the UTC clock, in seconds since midnight
    order,       \* the order in which a directory listing yields names
    sched,       \* how the invocations are scheduled: single, sequential, concurrent
    pc,          \* pc[r]: where invocation r is in main()
    args,        \* args[r]: the parsed command line of invocation r
    frame,       \* frame[r]: the locals of backup_recursive and copy_file
    exit_status, \* exit_status[r]: the process's exit status, -1 while it runs
    log,         \* log[r]: what invocation r printed and performed, in order
    fs0,         \* fs0[r]: the filesystem when invocation r started
    clock0       \* clock0[r]: the clock when invocation r started

vars == <<fs, clock, order, sched, pc, args, frame, exit_status, log, fs0, clock0>>

\* ------------------------------------------------------------------ bounds

\* The clock advances at most this many seconds during a behaviour.
MaxTicks == 1

\* The invocations of the program in one behaviour.
Runs == {1, 2}

\* ------------------------------------------------------------------- paths
\* A path is a string, "/src/sub/a.txt"; a name is a path component.

\* The characters of s at positions i..j, and the character at i
Char(s, i) == SubSeq(s, i, i)

\* n as a zero-padded decimal of w digits (strftime's %Y, %m, %d, %H, %M, %S)
RECURSIVE Pad(_, _)
Pad(n, w) == IF w = 0 THEN "" ELSE Pad(n \div 10, w - 1) \o Char("0123456789", (n % 10) + 1)

\* The day the behaviours happen on, and the second of it they start at.
Today == [year |-> 2026, month |-> 11, day |-> 5]
ClockStart == 59

\* datetime.utcnow().strftime('%Y%m%d-%H%M%S') at second t of Today
strftime(t) ==
    Pad(Today.year, 4) \o Pad(Today.month, 2) \o Pad(Today.day, 2) \o "-"
        \o Pad(t \div 3600, 2) \o Pad((t \div 60) % 60, 2) \o Pad(t % 60, 2)

\* The positions of character c in s, and the last of them (0 when none)
Positions(s, c) == {i \in 1..Len(s) : Char(s, i) = c}
LastPosition(s, c) ==
    IF Positions(s, c) = {} THEN 0
    ELSE CHOOSE i \in Positions(s, c) : \A j \in Positions(s, c) : j <= i

\* os.path.splitext on a base name: the extension starts at the last dot,
\* unless only dots precede it (a leading-dot name has no extension).
splitext(base) ==
    LET dot == LastPosition(base, ".")
    IN  IF dot > 0 /\ \E k \in 1..(dot - 1) : Char(base, k) # "."
        THEN <<SubSeq(base, 1, dot - 1), SubSeq(base, dot, Len(base))>>
        ELSE <<base, "">>

\* os.path.basename, os.path.dirname and os.path.join
basename(path) == SubSeq(path, LastPosition(path, "/") + 1, Len(path))
dirname(path) ==
    IF LastPosition(path, "/") = 1 THEN "/"
    ELSE SubSeq(path, 1, LastPosition(path, "/") - 1)
join(dir, name) == dir \o "/" \o name

\* os.path.relpath(path, start) for a path at or below start
relpath(path, start) ==
    IF path = start THEN "." ELSE SubSeq(path, Len(start) + 2, Len(path))

\* ------------------------------------------------------------- filesystem
\* The filesystem is a function from the existing paths to their entries;
\* the root directory "/" always exists and is not in it.

Dir == [kind |-> "dir", data |-> "-"]
File(data) == [kind |-> "file", data |-> data]

exists(f, path) == path = "/" \/ path \in DOMAIN f
isdir(f, path) == path = "/" \/ (path \in DOMAIN f /\ f[path].kind = "dir")
isfile(f, path) == path \in DOMAIN f /\ f[path].kind = "file"

\* f with the entry e at path
Put(f, path, e) == [q \in DOMAIN f \cup {path} |-> IF q = path THEN e ELSE f[q]]

\* path and its ancestors below the root
Prefixes(path) ==
    {path} \cup {SubSeq(path, 1, i - 1) : i \in Positions(path, "/") \ {1}}

\* os.makedirs(path, exist_ok=True) raises when path or one of its ancestors
\* exists and is not a directory ...
makedirs_raises(f, path) == \E q \in Prefixes(path) : isfile(f, q)

\* ... and otherwise creates path and every missing ancestor of it.
makedirs(f, path) ==
    [q \in DOMAIN f \cup Prefixes(path) |-> IF q \in DOMAIN f THEN f[q] ELSE Dir]

\* The names of the given kind in directory dir, in the order a listing
\* yields them.
listdir(f, dir, kind) ==
    LET here == {i \in 1..Len(order) : /\ join(dir, order[i]) \in DOMAIN f
                                       /\ f[join(dir, order[i])].kind = kind}
        F[S \in SUBSET (1..Len(order))] ==
            IF S = {} THEN <<>>
            ELSE LET i == CHOOSE x \in S : \A y \in S : x <= y
                 IN  <<order[i]>> \o F[S \ {i}]
    IN  F[here]

\* ------------------------------------------------------- the initial world

NameA == "a.txt"
NameH == ".env"
NameS == "sub"
\* "a.txt" as an earlier backup renamed it in the second the behaviour starts at
NameAStamped == "a_" \o strftime(ClockStart) \o ".txt"

SrcRoot == "/src"
DestParent == "/mnt"
DestRoot == join(DestParent, "bak")

\* The function with the pairs <<path, entry>> of S
Tree(S) == [q \in {x[1] : x \in S} |-> (CHOOSE x \in S : x[1] = q)[2]]

\* Source trees: none, a plain file in place of the directory, and three
\* directories (the same base name at two depths; a plain and a stamped name
\* side by side; a file above a subdirectory of a dot file and a file).
OneFileTree == {<<SrcRoot, Dir>>, <<join(SrcRoot, NameA), File("x1")>>}

SameNameTree ==
    {<<SrcRoot, Dir>>, <<join(SrcRoot, NameA), File("x1")>>,
     <<join(SrcRoot, NameS), Dir>>, <<join(join(SrcRoot, NameS), NameA), File("x2")>>}

SourceTrees ==
    { {},
      {<<SrcRoot, File("x0")>>},
      SameNameTree,
      {<<SrcRoot, Dir>>, <<join(SrcRoot, NameA), File("x1")>>,
       <<join(SrcRoot, NameAStamped), File("x2")>>},
      {<<SrcRoot, Dir>>, <<join(SrcRoot, NameA), File("x1")>>,
       <<join(SrcRoot, NameS), Dir>>, <<join(join(SrcRoot, NameS), NameH), File("x2")>>,
       <<join(join(SrcRoot, NameS), NameA), File("x3")>>} }

\* Destinations: nothing there (not even the parent), a plain file in the
\* way, an empty directory, and directories left by earlier backups.
EmptyDest == {<<DestParent, Dir>>, <<DestRoot, Dir>>}

TakenDest ==
    {<<DestParent, Dir>>, <<DestRoot, Dir>>, <<join(DestRoot, NameA), File("old")>>}

DestTrees ==
    { {},
      {<<DestParent, Dir>>, <<DestRoot, File("old")>>},
      EmptyDest,
      TakenDest,
      {<<DestParent, Dir>>, <<DestRoot, Dir>>, <<join(DestRoot, NameA), File("old")>>,
       <<join(DestRoot, NameAStamped), File("old")>>},
      {<<DestParent, Dir>>, <<DestRoot, Dir>>, <<join(DestRoot, NameS), File("old")>>},
      {<<DestParent, Dir>>, <<DestRoot, Dir>>, <<join(DestRoot, NameS), Dir>>,
       <<join(join(DestRoot, NameS), NameA), File("old")>>,
       <<join(join(DestRoot, NameS), NameH), File("old")>>} }

\* The orders a listing may yield the names in (only the order of the two
\* names that can share a directory differs).
FirstOrder == <<NameA, NameAStamped, NameH, NameS>>
Orders == {FirstOrder, <<NameAStamped, NameA, NameH, NameS>>}

NoFrame ==
    [pending |-> <<>>, root |-> "", target_dir |-> "", files |-> <<>>,
     src_file |-> "", dest_file |-> "", target |-> ""]

NoArgs ==
    [source |-> "", destination |-> "", flat |-> FALSE, dry_run |-> FALSE,
     verbose |-> FALSE]

InitWith(s, sources, dests, orders) ==
    /\ sched = s
    /\ \E src \in sources, dst \in dests : fs = Tree(src \cup dst)
    /\ order \in orders
    /\ clock = ClockStart
    /\ pc = [r \in Runs |-> "idle"]
    /\ args = [r \in Runs |-> NoArgs]
    /\ frame = [r \in Runs |-> NoFrame]
    /\ exit_status = [r \in Runs |-> -1]
    /\ log = [r \in Runs |-> <<>>]
    /\ fs0 = [r \in Runs |-> fs]
    /\ clock0 = [r \in Runs |-> clock]

\* One invocation.
Init == InitWith("single", SourceTrees, DestTrees, Orders)

\* --------------------------------------------------------------- the code

\* unique_name(path): path when nothing exists there, else path with
\* "_" + timestamp inserted between the root and the extension of its base.
unique_name(f, path, now) ==
    IF ~exists(f, path) THEN path
    ELSE LET base == basename(path)
             re == splitext(base)
             new_base == re[1] \o "_" \o strftime(now) \o re[2]
         IN  join(dirname(path), new_base)

\* Lines 45 and 52: RENAME(D) when unique_name changed the path, else COPY/COPIED
action(target, dest_file, dry_run) ==
    IF dry_run THEN (IF target # dest_file THEN "DRY_RENAME" ELSE "DRY_COPY")
    ELSE (IF target # dest_file THEN "RENAMED" ELSE "COPIED")

\* A line of the log: the message's tag, the source file, the planned
\* destination, the path unique_name gave, the path written ("" when none
\* was), whether the planned destination existed when the copy ran, and
\* whether the message was printed.
Entry(tag, fr, wrote, taken, printed) ==
    [tag |-> tag, src |-> fr.src_file, dest |-> fr.dest_file, target |-> fr.target,
     wrote |-> wrote, taken |-> taken, printed |-> printed]

Fatal(tag) == Entry(tag, NoFrame, "", FALSE, TRUE)

\* sys.exit(code) after printing the message tagged tag
Exit(r, code, tag) ==
    /\ pc' = [pc EXCEPT ![r] = "done"]
    /\ exit_status' = [exit_status EXCEPT ![r] = code]
    /\ log' = [log EXCEPT ![r] = Append(@, Fatal(tag))]

\* Which invocation may start: one alone, the second after the first has
\* ended, or both at any time.
MayStart(r) ==
    \/ sched = "single" /\ r = 1
    \/ sched = "sequential" /\ (r = 1 \/ pc[1] = "done")
    \/ sched = "concurrent"

\* A variant that prepares the destination before it validates the source.
main_validate_late(r) ==
    /\ pc[r] = "idle"
    /\ MayStart(r)
    /\ \E flat \in BOOLEAN, dry_run \in BOOLEAN, verbose \in BOOLEAN :
          /\ args' = [args EXCEPT ![r] =
                         [source |-> SrcRoot, destination |-> DestRoot, flat |-> flat,
                          dry_run |-> dry_run, verbose |-> verbose]]
          /\ fs' = IF dry_run \/ makedirs_raises(fs, DestRoot) THEN fs
                   ELSE makedirs(fs, DestRoot)
    /\ fs0' = [fs0 EXCEPT ![r] = fs]
    /\ clock0' = [clock0 EXCEPT ![r] = clock]
    /\ IF ~exists(fs, SrcRoot) THEN Exit(r, 1, "NO_SOURCE")
       ELSE IF ~isdir(fs, SrcRoot) THEN Exit(r, 1, "SOURCE_NOT_DIR")
       ELSE /\ pc' = [pc EXCEPT ![r] = "prepare"]
            /\ UNCHANGED <<exit_status, log>>
    /\ UNCHANGED <<clock, order, sched, frame>>

\* main(), lines 73-88: parse the command line and validate the source.
main_validate(r) ==
    /\ pc[r] = "idle"
    /\ MayStart(r)
    /\ \E flat \in BOOLEAN, dry_run \in BOOLEAN, verbose \in BOOLEAN :
          args' = [args EXCEPT ![r] =
                      [source |-> SrcRoot, destination |-> DestRoot, flat |-> flat,
                       dry_run |-> dry_run, verbose |-> verbose]]
    /\ fs0' = [fs0 EXCEPT ![r] = fs]
    /\ clock0' = [clock0 EXCEPT ![r] = clock]
    /\ IF ~exists(fs, SrcRoot) THEN Exit(r, 1, "NO_SOURCE")
       ELSE IF ~isdir(fs, SrcRoot) THEN Exit(r, 1, "SOURCE_NOT_DIR")
       ELSE /\ pc' = [pc EXCEPT ![r] = "prepare"]
            /\ UNCHANGED <<exit_status, log>>
    /\ UNCHANGED <<fs, clock, order, sched, frame>>

\* A variant that forgets the dry-run test: the directory is always created.
ensure_dir_always(f, path, dry_run) == makedirs(f, path)

\* Lines 63-64 and 92-93: the directory is created unless this is a dry run.
ensure_dir(f, path, dry_run) == IF dry_run THEN f ELSE makedirs(f, path)

\* main(), lines 90-98: create the destination unless this is a dry run.
main_prepare(r) ==
    /\ pc[r] = "prepare"
    /\ IF ~args[r].dry_run /\ makedirs_raises(fs, args[r].destination)
       THEN /\ Exit(r, 1, "NO_DESTINATION")
            /\ UNCHANGED <<fs, frame>>
       ELSE /\ fs' = ensure_dir(fs, args[r].destination, args[r].dry_run)
            /\ frame' = [frame EXCEPT ![r] = [NoFrame EXCEPT !.pending = <<args[r].source>>]]
            /\ pc' = [pc EXCEPT ![r] = "loop"]
            /\ UNCHANGED <<exit_status, log>>
    /\ UNCHANGED <<clock, order, sched, args, fs0, clock0>>

\* A variant that ignores the flat flag: the subdirectories are always kept.
target_dir_of_nested(dest_dir, rel, flat) ==
    IF rel # "." THEN join(dest_dir, rel) ELSE dest_dir

\* Line 62: the destination directory of the files of the source directory
\* whose path relative to the source root is rel.
target_dir_of(dest_dir, rel, flat) ==
    IF flat THEN dest_dir ELSE IF rel # "." THEN join(dest_dir, rel) ELSE dest_dir

\* backup_recursive, lines 59-66: os.walk yields the next directory, top
\* down, and its destination directory is created (or, in a verbose dry
\* run, reported). An error of makedirs reaches main's except Exception.
walk_next(r) ==
    /\ pc[r] = "loop"
    /\ frame[r].files = <<>>
    /\ frame[r].pending # <<>>
    /\ LET root == Head(frame[r].pending)
           rel == relpath(root, args[r].source)
           dirs == listdir(fs, root, "dir")
           files == listdir(fs, root, "file")
           target_dir == target_dir_of(args[r].destination, rel, args[r].flat)
           fr == [NoFrame EXCEPT
                     !.pending = [i \in 1..Len(dirs) |-> join(root, dirs[i])]
                                     \o Tail(frame[r].pending),
                     !.root = root, !.target_dir = target_dir, !.files = files]
       IN  IF ~args[r].dry_run /\ makedirs_raises(fs, target_dir)
           THEN /\ Exit(r, 1, "UNEXPECTED")
                /\ UNCHANGED <<fs, frame>>
           ELSE /\ fs' = ensure_dir(fs, target_dir, args[r].dry_run)
                /\ frame' = [frame EXCEPT ![r] = fr]
                /\ log' = [log EXCEPT ![r] =
                              IF args[r].dry_run /\ args[r].verbose
                              THEN Append(@, Entry("DRY_DIR", fr, "", FALSE, TRUE))
                              ELSE @]
                /\ UNCHANGED <<pc, exit_status>>
    /\ UNCHANGED <<clock, order, sched, args, fs0, clock0>>

\* backup_recursive, lines 67-70, and copy_file, lines 43-47: the next file
\* of the directory, its planned destination, the name unique_name gives it,
\* and, in a dry run, the report of the action.
next_file(r) ==
    /\ pc[r] = "loop"
    /\ frame[r].files # <<>>
    /\ LET fname == Head(frame[r].files)
           src_file == join(frame[r].root, fname)
           dest_file == join(frame[r].target_dir, fname)
           fr == [frame[r] EXCEPT !.files = Tail(@), !.src_file = src_file,
                                  !.dest_file = dest_file,
                                  !.target = unique_name(fs, dest_file, clock)]
       IN  /\ frame' = [frame EXCEPT ![r] = fr]
           /\ IF args[r].dry_run
              THEN /\ log' = [log EXCEPT ![r] =
                                 Append(@, Entry(action(fr.target, dest_file, TRUE),
                                                 fr, "", FALSE, TRUE))]
                   /\ UNCHANGED pc
              ELSE /\ pc' = [pc EXCEPT ![r] = "copy"]
                   /\ UNCHANGED log
    /\ UNCHANGED <<fs, clock, order, sched, args, exit_status, fs0, clock0>>

\* The path shutil.copy2 writes: a target that is a directory receives the
\* file under the source's base name (here only a directory that carries a
\* stamped file name could be one).
copy2_dst(f, src_file, target) ==
    IF isdir(f, target) THEN join(target, basename(src_file)) ELSE target

\* copy2 cannot succeed: nothing to read, a directory where the file is to
\* be written, or no directory to write it in.
copy2_raises(f, src_file, target) ==
    LET dst == copy2_dst(f, src_file, target)
    IN  ~isfile(f, src_file) \/ isdir(f, dst) \/ ~isdir(f, dirname(dst))

\* The outcomes of one copy: done, an error before anything is written
\* (permission denied, source vanished), an error with the file half
\* written (disk full).
Outcomes == {"ok", "error", "error_partial"}

\* A variant that leaves an existing file alone instead of overwriting it.
copy2_keep(f, src_file, target, outcome) ==
    LET dst == copy2_dst(f, src_file, target)
    IN  CASE outcome = "ok" /\ ~exists(f, dst) -> Put(f, dst, File(f[src_file].data))
          [] outcome = "error_partial" /\ ~exists(f, dst) -> Put(f, dst, File("part"))
          [] OTHER -> f

\* The filesystem after a copy of src_file to target with the given outcome
copy2(f, src_file, target, outcome) ==
    LET dst == copy2_dst(f, src_file, target)
    IN  CASE outcome = "ok" -> Put(f, dst, File(f[src_file].data))
          [] outcome = "error_partial" -> Put(f, dst, File("part"))
          [] OTHER -> f

\* A variant without the except clause: a failed copy ends the traversal.
after_copy_raise(outcome) == IF outcome = "ok" THEN "loop" ELSE "done"

\* Lines 54-55: the exception of a failed copy is caught in copy_file, which
\* returns to the loop over the files as a successful copy does.
after_copy(outcome) == "loop"

\* copy_file, lines 48-55: copy the file to the target; an exception is
\* caught and reported, a success is reported in verbose mode.
copy_file(r) ==
    /\ pc[r] = "copy"
    /\ \E outcome \in Outcomes :
          LET fr == frame[r]
              raises == copy2_raises(fs, fr.src_file, fr.target)
              dst == copy2_dst(fs, fr.src_file, fr.target)
          IN  /\ raises => outcome = "error"
              /\ fs' = copy2(fs, fr.src_file, fr.target, outcome)
              /\ log' = [log EXCEPT ![r] =
                            IF outcome = "ok"
                            THEN Append(@, Entry(action(fr.target, fr.dest_file, FALSE),
                                                 fr, dst, exists(fs, fr.dest_file),
                                                 args[r].verbose))
                            ELSE Append(@, Entry("ERROR", fr, "",
                                                 exists(fs, fr.dest_file), TRUE))]
          /\ pc' = [pc EXCEPT ![r] = after_copy(outcome)]
    /\ UNCHANGED <<clock, order, sched, args, frame, exit_status, fs0, clock0>>

\* main(), lines 102-104: backup_recursive has returned; the process ends
\* with status 0.
main_finish(r) ==
    /\ pc[r] = "loop"
    /\ frame[r].files = <<>>
    /\ frame[r].pending = <<>>
    /\ pc' = [pc EXCEPT ![r] = "done"]
    /\ exit_status' = [exit_status EXCEPT ![r] = 0]
    /\ UNCHANGED <<fs, clock, order, sched, args, frame, log, fs0, clock0>>

\* A variant whose handler cleans up: it restores the filesystem the run
\* started with.
KeyboardInterrupt_rollback(r) ==
    /\ pc[r] \in {"loop", "copy"}
    /\ fs' = fs0[r]
    /\ Exit(r, 130, "INTERRUPTED")
    /\ UNCHANGED <<clock, order, sched, args, frame, fs0, clock0>>

\* main(), lines 105-107: a KeyboardInterrupt raised anywhere inside
\* backup_recursive ends the process with status 130. copy_file's except
\* Exception does not catch it; raised inside copy2 it may leave the file
\* half written.
KeyboardInterrupt(r) ==
    /\ pc[r] \in {"loop", "copy"}
    /\ \E outcome \in {"error", "error_partial"} :
          /\ outcome = "error_partial" =>
                 pc[r] = "copy" /\ ~copy2_raises(fs, frame[r].src_file, frame[r].target)
          /\ fs' = copy2(fs, frame[r].src_file, frame[r].target, outcome)
    /\ Exit(r, 130, "INTERRUPTED")
    /\ UNCHANGED <<clock, order, sched, args, frame, fs0, clock0>>

\* A second passes while some invocation runs.
Tick ==
    /\ clock < ClockStart + MaxTicks
    /\ \E r \in Runs : pc[r] \notin {"idle", "done"}
    /\ clock' = clock + 1
    /\ UNCHANGED <<fs, order, sched, pc, args, frame, exit_status, log, fs0, clock0>>

Next ==
    \/ \E r \in Runs :
          \/ main_validate(r)
          \/ main_prepare(r)
          \/ walk_next(r)
          \/ next_file(r)
          \/ copy_file(r)
          \/ main_finish(r)
          \/ KeyboardInterrupt(r)
    \/ Tick

Spec == Init /\ [][Next]_vars

\* Two invocations, the second started after the first has ended.
InitSeq ==
    InitWith("sequential", {SameNameTree}, {EmptyDest, TakenDest}, {FirstOrder})
SpecSeq == InitSeq /\ [][Next]_vars

\* Two invocations running at the same time.
InitConc ==
    InitWith("concurrent", {OneFileTree}, {EmptyDest, TakenDest}, {FirstOrder})
SpecConc == InitConc /\ [][Next]_vars

\* ------------------------------------------------------------ properties

Succeeded == {"COPIED", "RENAMED"}
Planned == {"DRY_COPY", "DRY_RENAME"}

\* The positions of log[r] whose tag is in tags
At(r, tags) == {i \in 1..Len(log[r]) : log[r][i].tag \in tags}

\* The files under the source root
SourceFiles(f) ==
    {q \in DOMAIN f : /\ isfile(f, q)
                      /\ Len(q) > Len(SrcRoot)
                      /\ SubSeq(q, 1, Len(SrcRoot) + 1) = SrcRoot \o "/"}

\* Invocation r has ended with the given status
Ended(r, status) == pc[r] = "done" /\ exit_status[r] = status

\* The tag of the last line of log[r]
LastTag(r) == IF log[r] = <<>> THEN "" ELSE log[r][Len(log[r])].tag

\* base with "_" and the timestamp of second t before its extension
Stamped(base, t) ==
    LET dot == LastPosition(base, ".")
        cut == IF dot = 0 \/ \A k \in 1..(dot - 1) : Char(base, k) = "."
               THEN Len(base) + 1
               ELSE dot
    IN  SubSeq(base, 1, cut - 1) \o "_" \o strftime(t) \o SubSeq(base, cut, Len(base))

\* C1: after a live run that ends with status 0 and in which no copy
\* failed, every source file has been written exactly once, no two of them
\* to the same path, and each written path is a file of the destination.
C1_OneFilePerSource ==
    \A r \in Runs :
        (Ended(r, 0) /\ ~args[r].dry_run /\ At(r, {"ERROR"}) = {}) =>
            /\ \A q \in SourceFiles(fs) :
                   Cardinality({i \in At(r, Succeeded) : log[r][i].src = q}) = 1
            /\ \A i, j \in At(r, Succeeded) :
                   i # j => log[r][i].wrote # log[r][j].wrote
            /\ \A i \in At(r, Succeeded) : isfile(fs, log[r][i].wrote)

\* C2: a source file whose planned destination was a file when the run
\* started is written beside it under the name with one timestamp before the
\* extension, and when the run has ended with status 0 and without a failed
\* copy the file that was there is as it was.
C2_RenamedBesideOriginal ==
    \A r \in Runs : \A i \in At(r, Succeeded) :
        LET e == log[r][i]
        IN  isfile(fs0[r], e.dest) =>
                /\ \E t \in clock0[r]..clock :
                       e.wrote = join(dirname(e.dest), Stamped(basename(e.dest), t))
                /\ (Ended(r, 0) /\ At(r, {"ERROR"}) = {}) => fs[e.dest] = fs0[r][e.dest]

\* C3: the path unique_name has just returned does not exist.
C3_ReturnedPathIsFree ==
    \A r \in Runs :
        (frame[r].target # "" /\ (pc[r] = "copy" \/ (pc[r] = "loop" /\ args[r].dry_run)))
            => ~exists(fs, frame[r].target)

\* C4: a dry run leaves the filesystem as it found it.
C4_DryRunChangesNothing ==
    \A r \in Runs : (pc[r] # "idle" /\ args[r].dry_run) => fs = fs0[r]

\* A dry run of a two-level tree into a destination that does not exist has
\* ended, flat and verbose, having reported its directories and files.
C4_Witness ==
    /\ Ended(1, 0) /\ args[1].dry_run /\ args[1].flat /\ args[1].verbose
    /\ ~exists(fs0[1], DestRoot)
    /\ At(1, {"DRY_DIR"}) # {} /\ Cardinality(At(1, Planned)) >= 2

\* The (action, source, target) triples of log[r], in order: what a dry run
\* reported it would do, or what a live run did.
RECURSIVE Triples(_)
Triples(l) ==
    IF l = <<>> THEN <<>>
    ELSE LET e == Head(l)
             kind == IF e.tag \in {"DRY_COPY", "COPIED"} THEN "COPY" ELSE "RENAME"
         IN  IF e.tag \in Planned \cup Succeeded
             THEN <<[action |-> kind, src |-> e.src, target |-> e.target]>> \o Triples(Tail(l))
             ELSE Triples(Tail(l))

\* C5: a dry run followed, within the same second, by a live run with the
\* same flat flag that ends with status 0 without a failed copy: the dry run
\* reported the copies and renames the live run performed.
C5_DryRunReportsLiveRun ==
    ( /\ Ended(1, 0) /\ args[1].dry_run
      /\ Ended(2, 0) /\ ~args[2].dry_run /\ At(2, {"ERROR"}) = {}
      /\ args[1].flat = args[2].flat
      /\ clock = clock0[1] )
        => Triples(log[1]) = Triples(log[2])

\* The step is the end of a copy by invocation r that raised an error
CopyFailed(r) ==
    /\ pc[r] = "copy"
    /\ Len(log'[r]) = Len(log[r]) + 1
    /\ log'[r][Len(log'[r])].tag = "ERROR"

\* C6: a copy that raises is reported for its file and changes nothing but
\* (at most) the path it was writing, the traversal goes on with the files
\* and directories that were left, and a live run that ends with status 0 has
\* tried every source file once, each of them either copied to a file that
\* is in the destination or reported as failed; a run with a failed copy
\* ends with status 0 unless it was interrupted or could not create a
\* directory.
C6_FailureIsIsolated ==
    /\ [][\A r \in Runs : CopyFailed(r) =>
              LET e == log'[r][Len(log'[r])]
                  dst == copy2_dst(fs, frame[r].src_file, frame[r].target)
              IN  /\ e.src = frame[r].src_file /\ e.printed
                  /\ pc'[r] = "loop" /\ exit_status'[r] = -1
                  /\ frame'[r] = frame[r]
                  /\ \A q \in (DOMAIN fs \cup DOMAIN fs') \ {dst} :
                         q \in DOMAIN fs /\ q \in DOMAIN fs' /\ fs'[q] = fs[q]]_vars
    /\ [](\A r \in Runs : (Ended(r, 0) /\ ~args[r].dry_run) =>
              /\ \A q \in SourceFiles(fs) :
                     Cardinality({i \in At(r, Succeeded \cup {"ERROR"}) :
                                     log[r][i].src = q}) = 1
              /\ \A i \in At(r, Succeeded) : log[r][i].wrote \in DOMAIN fs)
    /\ [](\A r \in Runs :
              (pc[r] = "done" /\ At(r, {"ERROR"}) # {}
                   /\ LastTag(r) \notin {"UNEXPECTED", "INTERRUPTED"})
                  => exit_status[r] = 0)

\* A live run of three files ended with status 0: the first file was copied,
\* the copy of the second failed, the third was copied after it.
C6_Witness ==
    /\ Ended(1, 0) /\ ~args[1].dry_run
    /\ Len(log[1]) = 3
    /\ log[1][1].tag \in Succeeded /\ log[1][2].tag = "ERROR" /\ log[1][3].tag \in Succeeded
    /\ fs[log[1][1].wrote].data = fs[log[1][1].src].data
    /\ fs[log[1][3].wrote].data = fs[log[1][3].src].data

\* The paths below the destination root that are files
DestFiles(f) ==
    {q \in DOMAIN f : isfile(f, q) /\ Len(q) > Len(DestRoot)
                      /\ SubSeq(q, 1, Len(DestRoot) + 1) = DestRoot \o "/"}

\* C7 as stated: a run that ends with status 1 because the source is missing
\* or no directory, or because a destination directory it needs cannot be
\* created (the destination root, or a subdirectory during the traversal),
\* has copied no file; for a bad source it has changed nothing at all.
C7_FatalBeforeAnyCopy ==
    \A r \in Runs :
        (Ended(r, 1) /\ LastTag(r) \in {"NO_SOURCE", "SOURCE_NOT_DIR", "NO_DESTINATION",
                                         "UNEXPECTED"}) =>
            /\ At(r, Succeeded) = {}
            /\ DestFiles(fs) = DestFiles(fs0[r])
            /\ LastTag(r) \in {"NO_SOURCE", "SOURCE_NOT_DIR"} => fs = fs0[r]

\* C7, amended: a run that ends with status 1 because the source is missing
\* or no directory, or because the destination root cannot be created, has
\* tried no copy and left the files of the destination as they were; for a
\* bad source it has changed nothing at all.
C7_PreconditionFatalBeforeAnyCopy ==
    \A r \in Runs :
        (Ended(r, 1) /\ LastTag(r) \in {"NO_SOURCE", "SOURCE_NOT_DIR", "NO_DESTINATION"}) =>
            /\ log[r] = <<Fatal(LastTag(r))>>
            /\ DestFiles(fs) = DestFiles(fs0[r])
            /\ \A q \in DestFiles(fs) : fs[q] = fs0[r][q]
            /\ LastTag(r) \in {"NO_SOURCE", "SOURCE_NOT_DIR"} => fs = fs0[r]

\* A live run of a source with files ended with status 1 at a destination
\* root that is a plain file.
C7_Witness ==
    /\ Ended(1, 1) /\ LastTag(1) = "NO_DESTINATION"
    /\ ~args[1].dry_run /\ isfile(fs, DestRoot) /\ SourceFiles(fs) # {}

\* The step is a KeyboardInterrupt reaching main's handler in invocation r
Interrupted(r) == exit_status[r] = -1 /\ exit_status'[r] = 130

\* C8: an interrupt during the traversal ends the run with status 130 at
\* once: the step changes nothing but (at most) the file whose copy it
\* interrupted, and afterwards the run's status stays 130 and, the run being
\* alone, the filesystem stays as it is.
C8_InterruptStops ==
    /\ [][\A r \in Runs : Interrupted(r) =>
              LET dst == copy2_dst(fs, frame[r].src_file, frame[r].target)
              IN  /\ pc[r] \in {"loop", "copy"} /\ pc'[r] = "done"
                  /\ \A q \in (DOMAIN fs \cup DOMAIN fs') \ {dst} :
                         q \in DOMAIN fs /\ q \in DOMAIN fs' /\ fs'[q] = fs[q]
                  /\ pc[r] = "loop" => fs' = fs]_vars
    /\ [][\A r \in Runs : exit_status[r] = 130 =>
              /\ exit_status'[r] = 130 /\ pc'[r] = "done"
              /\ sched = "single" => fs' = fs]_vars
    /\ [](\A r \in Runs : LastTag(r) = "INTERRUPTED" <=> exit_status[r] = 130)

\* A live run was interrupted after its first copy and before its last: the
\* copied file is in the destination, the other is not.
C8_Witness ==
    /\ Ended(1, 130) /\ ~args[1].dry_run
    /\ Cardinality(At(1, Succeeded)) = 1
    /\ \E q \in SourceFiles(fs) : \A i \in At(1, Succeeded) : log[1][i].src # q
    /\ \A i \in At(1, Succeeded) : fs[log[1][i].wrote].data = fs[log[1][i].src].data
    /\ DestFiles(fs) # DestFiles(fs0[1])

\* The destination of source file src as the specification plans it: the
\* path below the source root moved below the destination root, or, flat,
\* the base name directly in the destination root.
PlannedPath(src, flat) ==
    IF flat THEN DestRoot \o "/" \o SubSeq(src, LastPosition(src, "/") + 1, Len(src))
    ELSE DestRoot \o SubSeq(src, Len(SrcRoot) + 1, Len(src))

\* The directories invocation r found missing and that exist now
NewDirs(r) == {q \in DOMAIN fs : isdir(fs, q) /\ q \notin DOMAIN fs0[r]}

\* What C9 says of the files: a file copied while its planned destination did
\* not exist is written there, under its own name; and when that was so for
\* every file of a live run that ended with status 0 without a failed copy,
\* every source file is at its planned destination.
CopiedAsPlanned(r) ==
    /\ \A i \in At(r, Succeeded) :
           LET e == log[r][i]
           IN  ~e.taken => /\ e.wrote = PlannedPath(e.src, args[r].flat)
                           /\ e.tag = "COPIED"
                           /\ isfile(fs, e.wrote)
    /\ (Ended(r, 0) /\ At(r, {"ERROR"}) = {} /\ \A i \in At(r, Succeeded) : ~log[r][i].taken)
           => \A q \in SourceFiles(fs) :
                  /\ isfile(fs, PlannedPath(q, args[r].flat))
                  /\ fs[PlannedPath(q, args[r].flat)].data = fs[q].data

\* C9 as stated: in a live run the files are copied as planned, and a flat
\* run creates no directory other than the destination root.
C9_PlannedPaths ==
    \A r \in Runs : (pc[r] # "idle" /\ ~args[r].dry_run) =>
        /\ CopiedAsPlanned(r)
        /\ args[r].flat => NewDirs(r) \subseteq {DestRoot}

\* C9, amended: in a live run the files are copied as planned, and a flat
\* run creates no directory other than the destination root and the
\* ancestors of it that were missing.
C9_PlannedPathsBelowRoot ==
    \A r \in Runs : (pc[r] # "idle" /\ ~args[r].dry_run) =>
        /\ CopiedAsPlanned(r)
        /\ args[r].flat => NewDirs(r) \subseteq Prefixes(DestRoot)

\* A flat live run into a destination whose parent did not exist has ended
\* with status 0, with a file of the root and a file of the subdirectory
\* side by side in the destination root.
C9_Witness ==
    /\ Ended(1, 0) /\ ~args[1].dry_run /\ args[1].flat
    /\ ~exists(fs0[1], DestParent) /\ isdir(fs, DestParent)
    /\ isfile(fs, join(DestRoot, NameA)) /\ isfile(fs, join(DestRoot, NameH))
    /\ ~exists(fs, join(DestRoot, NameS))

\* The step is the end of a successful copy by invocation r
CopyDone(r) ==
    /\ pc[r] = "copy"
    /\ Len(log'[r]) = Len(log[r]) + 1
    /\ log'[r][Len(log'[r])].tag \in Succeeded

\* C10: the copy is a step of its own, after the step that chose the path: it
\* writes the source's content to the path chosen then, whatever has come to
\* exist there since, and reports a plain copy when that path was the planned
\* one.
C10_CopyDoesNotCheckAgain ==
    [][\A r \in Runs : CopyDone(r) =>
           LET e == log'[r][Len(log'[r])]
           IN  /\ e.target = frame[r].target /\ e.dest = frame[r].dest_file
               /\ e.taken = exists(fs, e.dest)
               /\ e.wrote = copy2_dst(fs, e.src, e.target)
               /\ fs'[e.wrote] = File(fs[e.src].data)
               /\ e.tag = "COPIED" <=> e.target = e.dest]_vars

\* Both invocations have copied to the same path as a plain copy, neither
\* reported an error, and one of the copies found the path taken: it
\* overwrote the other's file.
C10_Witness ==
    /\ At(1, {"ERROR"}) = {} /\ At(2, {"ERROR"}) = {}
    /\ \E i \in At(1, {"COPIED"}), j \in At(2, {"COPIED"}) :
           /\ log[1][i].wrote = log[2][j].wrote
           /\ log[1][i].taken \/ log[2][j].taken

====
